---- MODULE Spec2Model ----
(***************************************************************************)
(* Extension resolution of markups.markdown.MarkdownMarkup: the process-   *)
(* wide canonicalization cache, the canonicalizer, the config-call parser, *)
(* the directive scanner, the configuration files and the resolver loop of *)
(* _apply_extensions, run by __init__ and by every convert call, and what  *)
(* convert returns: the body, the stylesheet and the MathJax bootstrap.    *)
(* The title convert takes from the engine's metadata is left out.         *)
(*                                                                         *)
(* An extension token is the syntax tree ast.parse builds for it: a        *)
(* (dotted) name, whether it is a call, and the call's positional          *)
(* arguments and keywords.  Python literals are written as their source    *)
(* text ("True").  A dict is a function on its keys.                       *)
(***************************************************************************)
EXTENDS FiniteSets, Integers, Sequences, TLC

\* ---------------------------------------------------------------- bounds
MaxExplicit == 2      \* tokens in the constructor's extensions argument
NumThreads == 2       \* threads of the host process
MaxKeywords == 2      \* keywords in a token handed to the parser alone

Threads == 1..NumThreads
MainThread == CHOOSE t \in Threads : \A u \in Threads : t <= u

\* ---------------------------------------------------------------- values
None == "<None>"
EmptyDict == [k \in {} |-> ""]

Put(d, k, v) == [x \in (DOMAIN d) \cup {k} |-> IF x = k THEN v ELSE d[x]]

Constant(v) == [kind |-> "Constant", value |-> v]
Name(id) == [kind |-> "Name", value |-> id]

Bare(n) == [name |-> n, call |-> FALSE, args |-> <<>>, keywords |-> <<>>]
Call(n, arg, node) ==
    [name |-> n, call |-> TRUE, args |-> <<>>,
     keywords |-> <<[arg |-> arg, value |-> node]>>]

Tokens ==
    { Bare("mathjax"),
      Bare("remove_extra"),
      Bare("markdown.extensions.extra"),
      Bare("markdown.extensions.toc"),
      Call("math", "enable_dollar_delimiter", Constant("False")),
      Call("toc", "permalink", Constant("True")),
      Bare("nonexistent123"),
      Call("toc", "permalink", Name("foo")) }

\* The tokens that ask for syntax highlighting.
HighlightTokens ==
    { Bare("codehilite"),
      Call("codehilite", "css_class", Constant("hl")),
      Bare("pymdownx.highlight"),
      Call("pymdownx.highlight", "css_class", Constant("code")) }

RawNames ==
    {t.name : t \in Tokens \cup HighlightTokens} \ {"mathjax", "remove_extra"}

TokenSeqs(n) == UNION {[1..k -> Tokens] : k \in 0..n}

\* ------------------------------------------------- module availability
\* What importlib.import_module(m) followed by hasattr(module,
\* 'makeExtension') finds: the import fails, the module loads without the
\* factory, or it is an extension module.
Status == {"ImportError", "NoFactory", "Extension"}

prefixes_EmptyFirst == <<"", "markdown.extensions.", "mdx_">>

prefixes == <<"markdown.extensions.", "", "mdx_">>

Modules == {prefixes[p] \o n : p \in 1..Len(prefixes), n \in RawNames}

\* Python-Markdown with python-markdown-math and pymdown-extensions
\* installed; 'math' is the standard library module, which has no
\* makeExtension.
Installed ==
    [m \in Modules |->
        IF m \in {"markdown.extensions.extra", "markdown.extensions.toc",
                  "mdx_math", "markdown.extensions.codehilite",
                  "pymdownx.highlight"}
        THEN "Extension"
        ELSE IF m = "math" THEN "NoFactory" ELSE "ImportError"]

VARIABLES
    avail,                    \* module name -> Status; static in a process
    _canonicalized_ext_names, \* the process-wide cache (a dict)
    resolved,                 \* history: raw name -> its first outcome
    event,                    \* the resolution the last step completed
    pc,                       \* per thread: position in __init__/convert
    caller,                   \* "init" or "convert": who runs the resolver
    requested_extensions,     \* self.requested_extensions
    global_extensions,        \* self.global_extensions
    document_extensions,      \* self.document_extensions
    extensions,               \* self.extensions
    self_extension_configs,   \* self.extension_configs
    todo,                     \* the resolver's local list `extensions`
    idx,                      \* index of the loop's current token in todo
    extension_names,          \* the resolver's local extension_names
    extension_configs,        \* the resolver's local extension_configs
    name,                     \* the loop's local name
    config,                   \* the loop's local config
    warnings,                 \* warnings.warn calls of the current call
    init_warnings,            \* warnings.warn calls of __init__
    construction,             \* the arguments and files __init__ ran with
    text,                     \* convert's argument
    converted                 \* the ConvertedMarkdown convert returned

vars == <<avail, _canonicalized_ext_names, resolved, event, pc, caller,
          requested_extensions, global_extensions, document_extensions,
          extensions, self_extension_configs, todo, idx, extension_names,
          extension_configs, name, config, warnings, init_warnings,
          construction, text, converted>>

\* ------------------------------------------------------- inputs: texts
\* A text is its lines (text.splitlines()); a line is its head, the text
\* up to and including the first ': ' if there is one, and the extension
\* tokens extension_name_re finds in the rest of the line.
Plain == [head |-> "text", tokens |-> <<>>]
Display == [head |-> "$$x$$", tokens |-> <<>>]
Directive(ts) == [head |-> "Required-Extensions: ", tokens |-> ts]

\* str.lower on the heads in use.
Lower(head) ==
    CASE head = "Required-Extensions: " -> "required-extensions: "
      [] head = "<!-- REQUIRED EXTENSIONS: " -> "<!-- required extensions: "
      [] head = "Required-Extensions:" -> "required-extensions:"
      [] OTHER -> head

\* extensions_re.search(line): 'required', any one character,
\* 'extensions: ' anywhere in the line, whatever the case.
extensions_re_search(line) ==
    Lower(line.head) \in {"required-extensions: ", "required extensions: ",
                          "<!-- required extensions: "}

FirstLines ==
    { Plain,
      Directive(<<Bare("remove_extra")>>),
      Directive(<<Bare("mathjax")>>),
      Directive(<<Bare("nonexistent123")>>),
      Directive(<<Call("toc", "permalink", Name("foo"))>>),
      Directive(<<Bare("remove_extra"), Bare("markdown.extensions.extra")>>) }

\* The texts convert is called with: the empty text, the one-line texts
\* and display math.
Texts == {<<>>} \cup {<<l>> : l \in FirstLines} \cup {<<Display>>}

_get_document_extensions_AnyLine(text_arg) ==
    LET found == {k \in 1..Len(text_arg) : extensions_re_search(text_arg[k])}
    IN IF found = {}
       THEN <<>>
       ELSE text_arg[CHOOSE k \in found : \A j \in found : k <= j].tokens

_get_document_extensions(text_arg) ==
    IF Len(text_arg) > 0 /\ extensions_re_search(text_arg[1])
    THEN text_arg[1].tokens
    ELSE <<>>

\* ------------------------------------------- inputs: configuration files
\* A markdown-extensions.txt file: missing, or its lines, each a comment
\* (it starts with '#') or an extension token.
Missing == [exists |-> FALSE, lines |-> <<>>]
File(ls) == [exists |-> TRUE, lines |-> ls]
Comment == [comment |-> TRUE, token |-> Bare("mathjax")]
Line(t) == [comment |-> FALSE, token |-> t]

ConfigFiles ==
    { Missing,
      File(<<>>),
      File(<<Comment, Line(Bare("mathjax"))>>),
      File(<<Line(Bare("remove_extra"))>>),
      File(<<Line(Call("toc", "permalink", Constant("True")))>>) }

IsNotComment(l) == ~l.comment

_load_extensions_list_from_file(file) ==
    IF ~file.exists
    THEN <<>>
    ELSE LET kept == SelectSeq(file.lines, IsNotComment)
         IN [k \in 1..Len(kept) |-> kept[k].token]

_get_global_extensions_LocalFirst(userFile, localFile) ==
    _load_extensions_list_from_file(localFile)
        \o _load_extensions_list_from_file(userFile)

_get_global_extensions(userFile, localFile) ==
    _load_extensions_list_from_file(userFile)
        \o _load_extensions_list_from_file(localFile)

\* The constructor's extensions argument: None, or a list.
NoExtensions == [given |-> FALSE, list |-> <<>>]
Explicit(ts) == [given |-> TRUE, list |-> ts]
ExtensionArgs == {NoExtensions} \cup {Explicit(ts) : ts \in TokenSeqs(MaxExplicit)}

\* ------------------------------------------------- the config-call parser
\* ast.literal_eval accepts a literal node and raises ValueError on any
\* other node.
IsLiteral(node) == node.kind = "Constant"

literal_eval(node) == node.value

RECURSIVE KeywordDict(_, _)
KeywordDict(keywords, k) ==
    IF k = 0
    THEN EmptyDict
    ELSE Put(KeywordDict(keywords, k - 1),
             keywords[k].arg, literal_eval(keywords[k].value))

\* TRUE when _split_extension_config raises on the token.
SplitRaises(token) ==
    token.call /\ \E k \in 1..Len(token.keywords) :
                      ~IsLiteral(token.keywords[k].value)

_split_extension_config(token) ==
    IF ~token.call
    THEN <<token.name, EmptyDict>>
    ELSE <<token.name, KeywordDict(token.keywords, Len(token.keywords))>>

\* ------------------------------------------------------ the canonicalizer
ModuleStatus(m) == IF m \in DOMAIN avail THEN avail[m] ELSE "ImportError"

\* The for loop over prefixes, from prefix number p on: the first prefix
\* whose module loads and has makeExtension; None when the loop ends.
RECURSIVE CanonicalizeFrom(_, _)
CanonicalizeFrom(extension_name, p) ==
    IF p > Len(prefixes)
    THEN None
    ELSE IF ModuleStatus(prefixes[p] \o extension_name) = "Extension"
         THEN prefixes[p] \o extension_name
         ELSE CanonicalizeFrom(extension_name, p + 1)

_canonicalize_extension_name(extension_name) ==
    CanonicalizeFrom(extension_name, 1)

\* The modules import_module is called with, in order, during one call.
RECURSIVE ImportsFrom(_, _)
ImportsFrom(extension_name, p) ==
    IF p > Len(prefixes)
    THEN <<>>
    ELSE IF ModuleStatus(prefixes[p] \o extension_name) = "Extension"
         THEN <<prefixes[p] \o extension_name>>
         ELSE <<prefixes[p] \o extension_name>>
                  \o ImportsFrom(extension_name, p + 1)

ImportAttempts(extension_name) == ImportsFrom(extension_name, 1)

\* ------------------------------------------------- what convert returns
NoConstruction == [arg |-> NoExtensions, userFile |-> Missing, localFile |-> Missing]
NoResult == [returned |-> FALSE, body |-> <<>>, stylesheet |-> ""]
ConvertedMarkdown(body, stylesheet) ==
    [returned |-> TRUE, body |-> body, stylesheet |-> stylesheet]

\* The engine with python-markdown-math: a $$x$$ line becomes a display
\* math script when mdx_math is among the engine's extensions and stays as
\* it is when not; other lines are paragraphs of their own text.
MathDisplay == "<script type=\"math/tex; mode=display\">x</script>"

md_convert(text_arg, names) ==
    [k \in 1..Len(text_arg) |->
        IF text_arg[k].head = "$$x$$" /\ "mdx_math" \in names
        THEN MathDisplay
        ELSE text_arg[k].head]

\* config.get(key, default)
Get(d, k, default) == IF k \in DOMAIN d THEN d[k] ELSE default

\* common.get_pygments_stylesheet(selector): the stylesheet text for the
\* selector.
get_pygments_stylesheet(selector) == "pygments " \o selector

Stylesheet_HighlightFirst(names, configs) ==
    IF "pymdownx.highlight" \in names
    THEN get_pygments_stylesheet(
             "." \o Get(Get(configs, "pymdownx.highlight", EmptyDict),
                        "css_class", "highlight"))
    ELSE IF "markdown.extensions.codehilite" \in names
         THEN get_pygments_stylesheet(
                  "." \o Get(Get(configs, "markdown.extensions.codehilite",
                                 EmptyDict),
                             "css_class", "codehilite"))
         ELSE ""

\* The stylesheet convert picks.
Stylesheet(names, configs) ==
    IF "markdown.extensions.codehilite" \in names
    THEN get_pygments_stylesheet(
             "." \o Get(Get(configs, "markdown.extensions.codehilite", EmptyDict),
                        "css_class", "codehilite"))
    ELSE IF "pymdownx.highlight" \in names
         THEN get_pygments_stylesheet(
                  "." \o Get(Get(configs, "pymdownx.highlight", EmptyDict),
                             "css_class", "highlight"))
         ELSE ""

\* ConvertedMarkdown.get_javascript: the MathJax bootstrap when the body
\* holds '<script type="math/', the empty string when not.
HasMathScript(body) == \E k \in 1..Len(body) : body[k] = MathDisplay

get_javascript_Never(body) == ""

get_javascript(body) ==
    IF HasMathScript(body)
    THEN "MATHJAX_CONFIG<script src=mathjax_url>"
    ELSE ""

\* ------------------------------------------------------------ the resolver
Baseline_ExtraOnly == {"markdown.extensions.extra"}

Baseline == {"markdown.extensions.extra", "mdx_math"}
mathjax_config == [enable_dollar_delimiter |-> "True"]

\* extension_configs["mdx_math"] = mathjax_config
ConfigureMathjax(configs) == Put(configs, "mdx_math", mathjax_config)

RemoveBaseline_ExtraOnly(names) == names \ {"markdown.extensions.extra"}

RemoveBaseline_Everything(names) == {}

\* The two guarded extension_names.remove calls.
RemoveBaseline(names) == (names \ {"markdown.extensions.extra"}) \ {"mdx_math"}

\* extension_names.add(canonical_name)
AddName(names, canonical_name) == names \cup {canonical_name}

SetConfig_KeepFirst(configs, canonical_name, cfg) ==
    IF canonical_name \in DOMAIN configs
    THEN configs
    ELSE Put(configs, canonical_name, cfg)

SetConfig_Skipped(configs, canonical_name, cfg) == configs

\* extension_configs[canonical_name] = config
SetConfig(configs, canonical_name, cfg) == Put(configs, canonical_name, cfg)

Warn_Silent(count) == count

\* warnings.warn('Extension "%s" does not exist.' % extension, ImportWarning)
Warn(count) == count + 1

\* What a step that resolves a raw name did: the name, the outcome, the
\* modules it tried to import, and whether the name had been resolved
\* before in this process.
NoEvent == [name |-> "", result |-> "", loads |-> <<>>, again |-> FALSE]
Resolution(n, r, l) ==
    [name |-> n, result |-> r, loads |-> l, again |-> n \in DOMAIN resolved]

CacheStore_Fresh(cache, raw, canonical_name) == Put(EmptyDict, raw, canonical_name)

\* _canonicalized_ext_names[name] = canonical_name
CacheStore(cache, raw, canonical_name) == Put(cache, raw, canonical_name)

Remember(n, r) == IF n \in DOMAIN resolved THEN resolved ELSE Put(resolved, n, r)

Running(t) == pc[t] \in {"loop", "canon"}
Token(t) == todo[t][idx[t]]

\* The resolver's frame before _apply_extensions is entered and after it
\* is left.
NoFrame(t) ==
    /\ todo' = [todo EXCEPT ![t] = <<>>]
    /\ idx' = [idx EXCEPT ![t] = 0]
    /\ extension_names' = [extension_names EXCEPT ![t] = {}]
    /\ extension_configs' = [extension_configs EXCEPT ![t] = EmptyDict]
    /\ name' = [name EXCEPT ![t] = None]
    /\ config' = [config EXCEPT ![t] = EmptyDict]

AllExtensions_DocumentFirst(requested, global, document) ==
    document \o global \o requested

\* extensions = (self.requested_extensions + self.global_extensions +
\*               self.document_extensions)
AllExtensions(requested, global, document) ==
    requested \o global \o document

EnterApply_CarryOver(t, requested, global, document) ==
    /\ todo' = [todo EXCEPT ![t] = AllExtensions(requested, global, document)]
    /\ idx' = [idx EXCEPT ![t] = 1]
    /\ extension_names' = [extension_names EXCEPT ![t] = Baseline \cup extensions[t]]
    /\ extension_configs' = [extension_configs EXCEPT ![t] = self_extension_configs[t]]
    /\ name' = [name EXCEPT ![t] = None]
    /\ config' = [config EXCEPT ![t] = EmptyDict]

\* Entry of _apply_extensions: the concatenated token list and the initial
\* accumulators.
EnterApply(t, requested, global, document) ==
    /\ todo' = [todo EXCEPT ![t] = AllExtensions(requested, global, document)]
    /\ idx' = [idx EXCEPT ![t] = 1]
    /\ extension_names' = [extension_names EXCEPT ![t] = Baseline]
    /\ extension_configs' = [extension_configs EXCEPT ![t] = EmptyDict]
    /\ name' = [name EXCEPT ![t] = None]
    /\ config' = [config EXCEPT ![t] = EmptyDict]

Continue_Break(t) ==
    /\ idx' = [idx EXCEPT ![t] = Len(todo[t]) + 1]
    /\ name' = [name EXCEPT ![t] = None]
    /\ config' = [config EXCEPT ![t] = EmptyDict]
    /\ pc' = [pc EXCEPT ![t] = "loop"]

\* continue: the loop skips the rest of its body and goes on to the next
\* token.
Continue(t) ==
    /\ idx' = [idx EXCEPT ![t] = idx[t] + 1]
    /\ name' = [name EXCEPT ![t] = None]
    /\ config' = [config EXCEPT ![t] = EmptyDict]
    /\ pc' = [pc EXCEPT ![t] = "loop"]

\* The loop body is done; the loop goes on to the next token.
NextToken(t) ==
    /\ idx' = [idx EXCEPT ![t] = idx[t] + 1]
    /\ name' = [name EXCEPT ![t] = None]
    /\ config' = [config EXCEPT ![t] = EmptyDict]
    /\ pc' = [pc EXCEPT ![t] = "loop"]

Init ==
    /\ avail = Installed
    /\ _canonicalized_ext_names = EmptyDict
    /\ resolved = EmptyDict
    /\ event = NoEvent
    /\ pc = [t \in Threads |-> "none"]
    /\ caller = [t \in Threads |-> "init"]
    /\ requested_extensions = [t \in Threads |-> <<>>]
    /\ global_extensions = [t \in Threads |-> <<>>]
    /\ document_extensions = [t \in Threads |-> <<>>]
    /\ extensions = [t \in Threads |-> {}]
    /\ self_extension_configs = [t \in Threads |-> EmptyDict]
    /\ todo = [t \in Threads |-> <<>>]
    /\ idx = [t \in Threads |-> 0]
    /\ extension_names = [t \in Threads |-> {}]
    /\ extension_configs = [t \in Threads |-> EmptyDict]
    /\ name = [t \in Threads |-> None]
    /\ config = [t \in Threads |-> EmptyDict]
    /\ warnings = [t \in Threads |-> 0]
    /\ init_warnings = [t \in Threads |-> 0]
    /\ construction = [t \in Threads |-> NoConstruction]
    /\ text = [t \in Threads |-> <<>>]
    /\ converted = [t \in Threads |-> NoResult]

\* MarkdownMarkup(filename, extensions) up to the entry of the resolver
\* loop; userFile and localFile are the two markdown-extensions.txt files
\* the filename leads to.  A thread constructs its instance once; after a
\* construction that raised it may construct again, the cache being kept.
Construct(t, arg, userFile, localFile) ==
    /\ pc[t] = "none"
    /\ LET requested == arg.list
           global == IF ~arg.given
                     THEN _get_global_extensions(userFile, localFile)
                     ELSE <<>>
       IN /\ requested_extensions' = [requested_extensions EXCEPT ![t] = requested]
          /\ global_extensions' = [global_extensions EXCEPT ![t] = global]
          /\ document_extensions' = [document_extensions EXCEPT ![t] = <<>>]
          /\ EnterApply(t, requested, global, <<>>)
    /\ extensions' = [extensions EXCEPT ![t] = {}]
    /\ self_extension_configs' = [self_extension_configs EXCEPT ![t] = EmptyDict]
    /\ warnings' = [warnings EXCEPT ![t] = 0]
    /\ init_warnings' = [init_warnings EXCEPT ![t] = 0]
    /\ pc' = [pc EXCEPT ![t] = "loop"]
    /\ caller' = [caller EXCEPT ![t] = "init"]
    /\ event' = NoEvent
    /\ construction' = [construction EXCEPT
                           ![t] = [arg |-> arg, userFile |-> userFile,
                                   localFile |-> localFile]]
    /\ text' = [text EXCEPT ![t] = <<>>]
    /\ converted' = [converted EXCEPT ![t] = NoResult]
    /\ UNCHANGED <<avail, _canonicalized_ext_names, resolved>>

\* convert(text) up to the entry of the resolver loop.
Convert(t, text_arg) ==
    /\ pc[t] \in {"ready", "failed"}
    /\ LET document == _get_document_extensions(text_arg)
       IN /\ document_extensions' = [document_extensions EXCEPT ![t] = document]
          /\ EnterApply(t, requested_extensions[t], global_extensions[t], document)
    /\ warnings' = [warnings EXCEPT ![t] = 0]
    /\ pc' = [pc EXCEPT ![t] = "loop"]
    /\ caller' = [caller EXCEPT ![t] = "convert"]
    /\ event' = NoEvent
    /\ text' = [text EXCEPT ![t] = text_arg]
    /\ converted' = [converted EXCEPT ![t] = NoResult]
    /\ UNCHANGED construction
    /\ UNCHANGED <<avail, _canonicalized_ext_names, resolved,
                   requested_extensions, global_extensions, extensions,
                   self_extension_configs, init_warnings>>

\* Loop body, token 'mathjax'.
Mathjax(t) ==
    /\ pc[t] = "loop" /\ idx[t] <= Len(todo[t])
    /\ Token(t) = Bare("mathjax")
    /\ extension_configs' =
           [extension_configs EXCEPT ![t] = ConfigureMathjax(@)]
    /\ idx' = [idx EXCEPT ![t] = idx[t] + 1]
    /\ event' = NoEvent
    /\ UNCHANGED <<construction, text, converted>>
    /\ UNCHANGED <<avail, _canonicalized_ext_names, resolved, pc, caller,
                   requested_extensions, global_extensions,
                   document_extensions, extensions, self_extension_configs,
                   todo, extension_names, name, config, warnings, init_warnings>>

\* Loop body, token 'remove_extra'.
RemoveExtra(t) ==
    /\ pc[t] = "loop" /\ idx[t] <= Len(todo[t])
    /\ Token(t) = Bare("remove_extra")
    /\ extension_names' =
           [extension_names EXCEPT ![t] = RemoveBaseline(@)]
    /\ idx' = [idx EXCEPT ![t] = idx[t] + 1]
    /\ event' = NoEvent
    /\ UNCHANGED <<construction, text, converted>>
    /\ UNCHANGED <<avail, _canonicalized_ext_names, resolved, pc, caller,
                   requested_extensions, global_extensions,
                   document_extensions, extensions, self_extension_configs,
                   todo, extension_configs, name, config, warnings, init_warnings>>

IsPlainToken(t) ==
    /\ pc[t] = "loop" /\ idx[t] <= Len(todo[t])
    /\ Token(t) # Bare("mathjax")
    /\ Token(t) # Bare("remove_extra")

\* Loop body, any other token, when _split_extension_config raises: the
\* exception leaves _apply_extensions and its caller.  Out of __init__ no
\* instance results; out of convert the instance keeps the attributes it
\* had, with the new document_extensions.
SplitError(t) ==
    /\ IsPlainToken(t)
    /\ SplitRaises(Token(t))
    /\ NoFrame(t)
    /\ event' = NoEvent
    /\ IF caller[t] = "init"
       THEN /\ pc' = [pc EXCEPT ![t] = "none"]
            /\ requested_extensions' = [requested_extensions EXCEPT ![t] = <<>>]
            /\ global_extensions' = [global_extensions EXCEPT ![t] = <<>>]
            /\ warnings' = [warnings EXCEPT ![t] = 0]
            /\ init_warnings' = [init_warnings EXCEPT ![t] = 0]
            /\ construction' = [construction EXCEPT ![t] = NoConstruction]
       ELSE /\ pc' = [pc EXCEPT ![t] = "failed"]
            /\ UNCHANGED <<requested_extensions, global_extensions,
                           warnings, init_warnings, construction>>
    /\ UNCHANGED <<text, converted>>
    /\ UNCHANGED <<avail, _canonicalized_ext_names, resolved, caller,
                   document_extensions, extensions, self_extension_configs>>

\* Loop body, any other token whose name is in the cache.
CacheHit(t) ==
    /\ IsPlainToken(t)
    /\ ~SplitRaises(Token(t))
    /\ LET split == _split_extension_config(Token(t))
       IN /\ split[1] \in DOMAIN _canonicalized_ext_names
          /\ LET canonical_name == _canonicalized_ext_names[split[1]]
             IN /\ extension_names' =
                       [extension_names EXCEPT ![t] = AddName(@, canonical_name)]
                /\ extension_configs' =
                       [extension_configs EXCEPT
                           ![t] = SetConfig(@, canonical_name, split[2])]
                /\ event' = Resolution(split[1], canonical_name, <<>>)
                /\ resolved' = Remember(split[1], canonical_name)
    /\ NextToken(t)
    /\ UNCHANGED <<construction, text, converted>>
    /\ UNCHANGED <<avail, _canonicalized_ext_names, caller,
                   requested_extensions, global_extensions,
                   document_extensions, extensions, self_extension_configs,
                   todo, warnings, init_warnings>>

\* Loop body, any other token whose name is not in the cache: the name and
\* config are split off and the canonicalizer is about to be called.
CacheMiss(t) ==
    /\ IsPlainToken(t)
    /\ ~SplitRaises(Token(t))
    /\ LET split == _split_extension_config(Token(t))
       IN /\ split[1] \notin DOMAIN _canonicalized_ext_names
          /\ name' = [name EXCEPT ![t] = split[1]]
          /\ config' = [config EXCEPT ![t] = split[2]]
    /\ pc' = [pc EXCEPT ![t] = "canon"]
    /\ event' = NoEvent
    /\ UNCHANGED <<construction, text, converted>>
    /\ UNCHANGED <<avail, _canonicalized_ext_names, resolved, caller,
                   requested_extensions, global_extensions,
                   document_extensions, extensions, self_extension_configs,
                   todo, idx, extension_names, extension_configs, warnings,
                   init_warnings>>

\* The canonicalizer returns None: warn and continue with the next token.
Unknown(t) ==
    /\ pc[t] = "canon"
    /\ _canonicalize_extension_name(name[t]) = None
    /\ warnings' = [warnings EXCEPT ![t] = Warn(@)]
    /\ init_warnings' =
           [init_warnings EXCEPT
               ![t] = IF caller[t] = "init" THEN Warn(@) ELSE @]
    /\ event' = Resolution(name[t], None, ImportAttempts(name[t]))
    /\ resolved' = Remember(name[t], None)
    /\ Continue(t)
    /\ UNCHANGED <<construction, text, converted>>
    /\ UNCHANGED <<avail, _canonicalized_ext_names, caller,
                   requested_extensions, global_extensions,
                   document_extensions, extensions, self_extension_configs,
                   todo, extension_names, extension_configs>>

\* The canonicalizer returns a name: it is cached, added and configured.
Canonicalized(t) ==
    /\ pc[t] = "canon"
    /\ LET canonical_name == _canonicalize_extension_name(name[t])
       IN /\ canonical_name # None
          /\ _canonicalized_ext_names' =
                 CacheStore(_canonicalized_ext_names, name[t], canonical_name)
          /\ extension_names' =
                 [extension_names EXCEPT ![t] = AddName(@, canonical_name)]
          /\ extension_configs' =
                 [extension_configs EXCEPT
                     ![t] = SetConfig(@, canonical_name, config[t])]
          /\ event' = Resolution(name[t], canonical_name, ImportAttempts(name[t]))
          /\ resolved' = Remember(name[t], canonical_name)
    /\ NextToken(t)
    /\ UNCHANGED <<construction, text, converted>>
    /\ UNCHANGED <<avail, caller, requested_extensions, global_extensions,
                   document_extensions, extensions, self_extension_configs,
                   todo, warnings, init_warnings>>

\* The loop is over: the engine is built and the accumulators are stored on
\* the instance; _apply_extensions returns.  __init__ returns with it;
\* convert goes on to render the body and to pick the stylesheet, and
\* returns the ConvertedMarkdown.
Finish(t) ==
    /\ pc[t] = "loop" /\ idx[t] > Len(todo[t])
    /\ extensions' = [extensions EXCEPT ![t] = extension_names[t]]
    /\ self_extension_configs' =
           [self_extension_configs EXCEPT ![t] = extension_configs[t]]
    /\ converted' =
           [converted EXCEPT
               ![t] = IF caller[t] = "convert"
                      THEN ConvertedMarkdown(
                               md_convert(text[t], extension_names[t]),
                               Stylesheet(extension_names[t],
                                          extension_configs[t]))
                      ELSE @]
    /\ NoFrame(t)
    /\ pc' = [pc EXCEPT ![t] = "ready"]
    /\ event' = NoEvent
    /\ UNCHANGED <<construction, text>>
    /\ UNCHANGED <<avail, _canonicalized_ext_names, resolved, caller,
                   requested_extensions, global_extensions,
                   document_extensions, warnings, init_warnings>>

Step(t) ==
    \/ \E ts \in TokenSeqs(MaxExplicit) : Construct(t, Explicit(ts), Missing, Missing)
    \/ \E userFile \in ConfigFiles, localFile \in ConfigFiles :
           Construct(t, NoExtensions, userFile, localFile)
    \/ \E text_arg \in Texts : Convert(t, text_arg)
    \/ Mathjax(t)
    \/ RemoveExtra(t)
    \/ SplitError(t)
    \/ CacheHit(t)
    \/ CacheMiss(t)
    \/ Unknown(t)
    \/ Canonicalized(t)
    \/ Finish(t)

\* The program as it is designed to be run: one thread, call and return.
Next == Step(MainThread)

Spec == Init /\ [][Next]_vars

\* SpecConcurrent: a multi-threaded host.  Every thread constructs its own
\* instance and converts with it; the threads share the cache, and their
\* steps interleave (nothing in the code locks the cache).  The instances
\* and texts are drawn from a few that make the threads meet on one key.
ConcurrentLists ==
    { <<Call("toc", "permalink", Constant("True"))>>,
      <<Bare("mathjax"), Bare("markdown.extensions.toc")>>,
      <<Bare("remove_extra"), Bare("nonexistent123")>> }

ConcurrentTexts ==
    { <<Plain>>,
      <<Directive(<<Call("toc", "permalink", Constant("True"))>>)>>,
      <<Directive(<<Call("toc", "permalink", Name("foo"))>>)>> }

StepConcurrent(t) ==
    \/ \E ts \in ConcurrentLists : Construct(t, Explicit(ts), Missing, Missing)
    \/ \E text_arg \in ConcurrentTexts : Convert(t, text_arg)
    \/ Mathjax(t)
    \/ RemoveExtra(t)
    \/ SplitError(t)
    \/ CacheHit(t)
    \/ CacheMiss(t)
    \/ Unknown(t)
    \/ Canonicalized(t)
    \/ Finish(t)

NextConcurrent == \E t \in Threads : StepConcurrent(t)

SpecConcurrent == Init /\ [][NextConcurrent]_vars

\* SpecSequential: several instances in one process, their calls made one
\* after another: a call starts only when no other call is running.
NextSequential ==
    \E t \in Threads :
        /\ \A u \in Threads \ {t} : ~Running(u)
        /\ StepConcurrent(t)

SpecSequential == Init /\ [][NextSequential]_vars

\* SpecConstruct: constructions alone, without an extensions argument or
\* with one of a few, and with any pair of configuration files, each run to
\* its end.
ConstructArgs ==
    { NoExtensions,
      Explicit(<<>>),
      Explicit(<<Bare("mathjax")>>),
      Explicit(<<Bare("remove_extra"), Bare("nonexistent123")>>),
      Explicit(<<Bare("markdown.extensions.toc"), Bare("markdown.extensions.toc")>>),
      Explicit(<<Call("toc", "permalink", Name("foo"))>>) }

NextConstruct ==
    \/ \E arg \in ConstructArgs, userFile \in ConfigFiles, localFile \in ConfigFiles :
           Construct(MainThread, arg, userFile, localFile)
    \/ Mathjax(MainThread)
    \/ RemoveExtra(MainThread)
    \/ SplitError(MainThread)
    \/ CacheHit(MainThread)
    \/ CacheMiss(MainThread)
    \/ Unknown(MainThread)
    \/ Canonicalized(MainThread)
    \/ Finish(MainThread)

SpecConstruct == Init /\ [][NextConstruct]_vars

\* SpecParse: the config-call parser alone, on any token of the shapes
\* ast.parse accepts.  The token is the only one on the directive line of a
\* text that an instance built with extensions=[] is converting: the
\* resolver loop is at its first token.
Attribute(v) == [kind |-> "Attribute", value |-> v]
NestedCall(v) == [kind |-> "Call", value |-> v]

ParserNodes ==
    { Constant("True"), Constant("3"), Name("foo"), NestedCall("f()"),
      Attribute("os.sep") }
ParserArgs == {"permalink", "css_class", "baselevel"}

\* Keyword lists of up to MaxKeywords keywords, no argument name twice.
KeywordLists ==
    UNION { { kws \in [1..n -> [arg : ParserArgs, value : ParserNodes]] :
                \A i \in 1..n : \A j \in 1..n :
                    kws[i].arg = kws[j].arg => i = j }
            : n \in 0..MaxKeywords }

ParserTokens ==
    { Bare(n) : n \in {"toc", "pymdownx.highlight"} }
        \cup { [name |-> n, call |-> TRUE, args |-> as, keywords |-> kws] :
                   n \in {"toc", "pymdownx.highlight"},
                   as \in {<<>>} \cup {<<node>> : node \in ParserNodes},
                   kws \in KeywordLists }

InitParse ==
    /\ avail = Installed
    /\ _canonicalized_ext_names = EmptyDict
    /\ resolved = EmptyDict
    /\ event = NoEvent
    /\ \E token \in ParserTokens :
           /\ document_extensions =
                  [t \in Threads |-> IF t = MainThread THEN <<token>> ELSE <<>>]
           /\ todo = [t \in Threads |-> IF t = MainThread THEN <<token>> ELSE <<>>]
           /\ text = [t \in Threads |->
                         IF t = MainThread THEN <<Directive(<<token>>)>> ELSE <<>>]
    /\ pc = [t \in Threads |-> IF t = MainThread THEN "loop" ELSE "none"]
    /\ caller = [t \in Threads |-> IF t = MainThread THEN "convert" ELSE "init"]
    /\ requested_extensions = [t \in Threads |-> <<>>]
    /\ global_extensions = [t \in Threads |-> <<>>]
    /\ extensions = [t \in Threads |-> IF t = MainThread THEN Baseline ELSE {}]
    /\ self_extension_configs = [t \in Threads |-> EmptyDict]
    /\ idx = [t \in Threads |-> IF t = MainThread THEN 1 ELSE 0]
    /\ extension_names = [t \in Threads |-> IF t = MainThread THEN Baseline ELSE {}]
    /\ extension_configs = [t \in Threads |-> EmptyDict]
    /\ name = [t \in Threads |-> None]
    /\ config = [t \in Threads |-> EmptyDict]
    /\ warnings = [t \in Threads |-> 0]
    /\ init_warnings = [t \in Threads |-> 0]
    /\ construction =
           [t \in Threads |->
               IF t = MainThread
               THEN [arg |-> Explicit(<<>>), userFile |-> Missing,
                     localFile |-> Missing]
               ELSE NoConstruction]
    /\ converted = [t \in Threads |-> NoResult]

NextParse == SplitError(MainThread) \/ CacheMiss(MainThread)

SpecParse == InitParse /\ [][NextParse]_vars

\* SpecScan: the directive scanner alone.  An instance built with
\* extensions=[] is handed any text of up to two lines, each line with any
\* of the heads and any of a few token lists.
ScanHeads ==
    { "text", "Required-Extensions: ", "required extensions: ",
      "<!-- REQUIRED EXTENSIONS: ", "Required-Extensions:" }
ScanLines ==
    [ head : ScanHeads,
      tokens : { <<>>, <<Bare("remove_extra")>>,
                 <<Bare("mathjax"), Call("toc", "permalink", Constant("True"))>> } ]
ScanTexts ==
    {<<>>} \cup {<<l>> : l \in ScanLines}
           \cup {<<l, m>> : l \in ScanLines, m \in ScanLines}

InitScan ==
    /\ avail = Installed
    /\ _canonicalized_ext_names = EmptyDict
    /\ resolved = EmptyDict
    /\ event = NoEvent
    /\ pc = [t \in Threads |-> IF t = MainThread THEN "ready" ELSE "none"]
    /\ caller = [t \in Threads |-> "init"]
    /\ requested_extensions = [t \in Threads |-> <<>>]
    /\ global_extensions = [t \in Threads |-> <<>>]
    /\ document_extensions = [t \in Threads |-> <<>>]
    /\ extensions = [t \in Threads |-> IF t = MainThread THEN Baseline ELSE {}]
    /\ self_extension_configs = [t \in Threads |-> EmptyDict]
    /\ todo = [t \in Threads |-> <<>>]
    /\ idx = [t \in Threads |-> 0]
    /\ extension_names = [t \in Threads |-> {}]
    /\ extension_configs = [t \in Threads |-> EmptyDict]
    /\ name = [t \in Threads |-> None]
    /\ config = [t \in Threads |-> EmptyDict]
    /\ warnings = [t \in Threads |-> 0]
    /\ init_warnings = [t \in Threads |-> 0]
    /\ construction =
           [t \in Threads |->
               IF t = MainThread
               THEN [arg |-> Explicit(<<>>), userFile |-> Missing,
                     localFile |-> Missing]
               ELSE NoConstruction]
    /\ text = [t \in Threads |-> <<>>]
    /\ converted = [t \in Threads |-> NoResult]

NextScan == \E text_arg \in ScanTexts : Convert(MainThread, text_arg)

SpecScan == InitScan /\ [][NextScan]_vars

\* SpecStyle: instances that ask for syntax highlighting, and texts that do.
HighlightLists ==
    { <<>>,
      <<Bare("codehilite")>>,
      <<Call("codehilite", "css_class", Constant("hl"))>>,
      <<Bare("pymdownx.highlight")>>,
      <<Call("pymdownx.highlight", "css_class", Constant("code"))>>,
      <<Call("pymdownx.highlight", "css_class", Constant("code")),
        Call("codehilite", "css_class", Constant("hl"))>>,
      <<Bare("codehilite"), Bare("pymdownx.highlight")>>,
      <<Call("codehilite", "css_class", Constant("hl")), Bare("codehilite")>> }

StyleTexts ==
    { <<Plain>>,
      <<Directive(<<Call("codehilite", "css_class", Constant("hl"))>>)>>,
      <<Directive(<<Bare("pymdownx.highlight")>>)>> }

NextStyle ==
    \/ \E ts \in HighlightLists :
           Construct(MainThread, Explicit(ts), Missing, Missing)
    \/ \E text_arg \in StyleTexts : Convert(MainThread, text_arg)
    \/ CacheHit(MainThread)
    \/ CacheMiss(MainThread)
    \/ Canonicalized(MainThread)
    \/ Finish(MainThread)

SpecStyle == Init /\ [][NextStyle]_vars

\* SpecCanon: the canonicalizer alone, called on any raw name in a process
\* whose modules for one raw name are in any of the states a module can be
\* in.
InitCanon ==
    /\ \E n \in RawNames, f \in [1..Len(prefixes) -> Status] :
           avail = [m \in Modules |->
                       IF \E p \in 1..Len(prefixes) : m = prefixes[p] \o n
                       THEN f[CHOOSE p \in 1..Len(prefixes) : m = prefixes[p] \o n]
                       ELSE Installed[m]]
    /\ _canonicalized_ext_names = EmptyDict
    /\ resolved = EmptyDict
    /\ event = NoEvent
    /\ pc = [t \in Threads |-> "none"]
    /\ caller = [t \in Threads |-> "init"]
    /\ requested_extensions = [t \in Threads |-> <<>>]
    /\ global_extensions = [t \in Threads |-> <<>>]
    /\ document_extensions = [t \in Threads |-> <<>>]
    /\ extensions = [t \in Threads |-> {}]
    /\ self_extension_configs = [t \in Threads |-> EmptyDict]
    /\ todo = [t \in Threads |-> <<>>]
    /\ idx = [t \in Threads |-> 0]
    /\ extension_names = [t \in Threads |-> {}]
    /\ extension_configs = [t \in Threads |-> EmptyDict]
    /\ name = [t \in Threads |-> None]
    /\ config = [t \in Threads |-> EmptyDict]
    /\ warnings = [t \in Threads |-> 0]
    /\ init_warnings = [t \in Threads |-> 0]
    /\ construction = [t \in Threads |-> NoConstruction]
    /\ text = [t \in Threads |-> <<>>]
    /\ converted = [t \in Threads |-> NoResult]

\* A call of _canonicalize_extension_name(extension_name).
CanonicalizeCall(extension_name) ==
    /\ event' = Resolution(extension_name,
                           _canonicalize_extension_name(extension_name),
                           ImportAttempts(extension_name))
    /\ UNCHANGED <<construction, text, converted>>
    /\ UNCHANGED <<avail, _canonicalized_ext_names, resolved, pc, caller,
                   requested_extensions, global_extensions,
                   document_extensions, extensions, self_extension_configs,
                   todo, idx, extension_names, extension_configs, name,
                   config, warnings, init_warnings>>

NextCanon == \E n \in RawNames : CanonicalizeCall(n)

SpecCanon == InitCanon /\ [][NextCanon]_vars

\* ------------------------------------------------------------------ claims
\* A call has returned normally: the instance's attributes are those the
\* last resolver run stored, for the token sequence TokenSequence(t).
Completed(t) == pc[t] = "ready"

TokenSequence(t) ==
    requested_extensions[t] \o global_extensions[t] \o document_extensions[t]

IsMathjax(token) == token = Bare("mathjax")
IsRemoveExtra(token) == token = Bare("remove_extra")
IsOrdinary(token) == ~IsMathjax(token) /\ ~IsRemoveExtra(token)

\* The canonical name an ordinary token stands for in this process, None
\* when it has none.
CanonicalOf(token) == _canonicalize_extension_name(token.name)

\* The token writes the configuration of canonical name c.
Configures(token, c) ==
    \/ IsMathjax(token) /\ c = "mdx_math"
    \/ IsOrdinary(token) /\ CanonicalOf(token) = c

\* C1 as stated: after every run of the resolver every name in
\* self.extensions has an entry in self.extension_configs.
C1_Original ==
    \A t \in Threads :
        Completed(t) => extensions[t] \subseteq DOMAIN self_extension_configs[t]

\* C1 (amended): after every run of the resolver every name in
\* self.extensions other than the two baseline names has an entry in
\* self.extension_configs, and a baseline name in self.extensions has an
\* entry exactly when some token of the sequence configures it (a token that
\* resolves to it, or mathjax for 'mdx_math').
C1_NonBaselineNamesConfigured ==
    \A t \in Threads :
        Completed(t) =>
            /\ (extensions[t] \ Baseline) \subseteq DOMAIN self_extension_configs[t]
            /\ \A b \in Baseline \cap extensions[t] :
                   b \in DOMAIN self_extension_configs[t]
                       <=> \E k \in 1..Len(TokenSequence(t)) :
                               Configures(TokenSequence(t)[k], b)

C1_Witness ==
    \E t \in Threads :
        /\ Completed(t)
        /\ "markdown.extensions.toc" \in extensions[t]
        /\ "markdown.extensions.toc" \in DOMAIN self_extension_configs[t]
        /\ "mdx_math" \in extensions[t]
        /\ "mdx_math" \notin DOMAIN self_extension_configs[t]

HasRemoveExtra(seq) == \E k \in 1..Len(seq) : IsRemoveExtra(seq[k])

\* The position of the last remove_extra token of seq (0 when it has none).
LastRemoveExtra(seq) ==
    IF HasRemoveExtra(seq)
    THEN CHOOSE k \in 1..Len(seq) :
             /\ IsRemoveExtra(seq[k])
             /\ \A j \in (k + 1)..Len(seq) : ~IsRemoveExtra(seq[j])
    ELSE 0

\* Token k of seq is an ordinary token that resolves to a canonical name.
Resolvable(seq, k) == IsOrdinary(seq[k]) /\ CanonicalOf(seq[k]) # None

\* C2: when the token sequence has a remove_extra token and no token after
\* the last remove_extra resolves to a baseline name, the final name set
\* holds neither baseline name, wherever the remove_extra token came from.
C2_RemoveExtraRemovesBaseline ==
    \A t \in Threads :
        LET seq == TokenSequence(t)
        IN (/\ Completed(t)
            /\ HasRemoveExtra(seq)
            /\ \A k \in (LastRemoveExtra(seq) + 1)..Len(seq) :
                   ~(Resolvable(seq, k) /\ CanonicalOf(seq[k]) \in Baseline))
               => extensions[t] \cap Baseline = {}

C2_Witness ==
    \E t \in Threads :
        /\ Completed(t)
        /\ HasRemoveExtra(document_extensions[t])
        /\ \E k \in 1..Len(requested_extensions[t]) :
               /\ Resolvable(requested_extensions[t], k)
               /\ CanonicalOf(requested_extensions[t][k]) \in Baseline
        /\ extensions[t] \cap Baseline = {}

\* C3: an extension whose token comes after a remove_extra token, with no
\* further remove_extra after it, is in the final name set; this includes a
\* token that names a baseline extension again.
C3_AddedAfterRemoveExtraStays ==
    \A t \in Threads :
        LET seq == TokenSequence(t)
        IN Completed(t) =>
               \A k \in 1..Len(seq) :
                   (/\ Resolvable(seq, k)
                    /\ \E j \in 1..(k - 1) : IsRemoveExtra(seq[j])
                    /\ \A j \in (k + 1)..Len(seq) : ~IsRemoveExtra(seq[j]))
                       => CanonicalOf(seq[k]) \in extensions[t]

C3_Witness ==
    \E t \in Threads :
        LET seq == TokenSequence(t)
        IN /\ Completed(t)
           /\ \E k \in 1..Len(seq) :
                  /\ seq[k] = Bare("markdown.extensions.extra")
                  /\ \E j \in 1..(k - 1) : IsRemoveExtra(seq[j])
                  /\ \A j \in (k + 1)..Len(seq) : ~IsRemoveExtra(seq[j])
           /\ "markdown.extensions.extra" \in extensions[t]
           /\ "mdx_math" \notin extensions[t]

\* C4 as stated: the canonical name of every resolvable token that comes
\* before a remove_extra token is in the final name set.
C4_Original ==
    \A t \in Threads :
        LET seq == TokenSequence(t)
        IN Completed(t) =>
               \A k \in 1..Len(seq) :
                   (/\ Resolvable(seq, k)
                    /\ \E j \in (k + 1)..Len(seq) : IsRemoveExtra(seq[j]))
                       => CanonicalOf(seq[k]) \in extensions[t]

\* C4 (amended): the canonical name of every resolvable token that comes
\* before a remove_extra token is in the final name set, unless it is one
\* of the two baseline names.
C4_NonBaselineSurvivesRemoveExtra ==
    \A t \in Threads :
        LET seq == TokenSequence(t)
        IN Completed(t) =>
               \A k \in 1..Len(seq) :
                   (/\ Resolvable(seq, k)
                    /\ CanonicalOf(seq[k]) \notin Baseline
                    /\ \E j \in (k + 1)..Len(seq) : IsRemoveExtra(seq[j]))
                       => CanonicalOf(seq[k]) \in extensions[t]

C4_Witness ==
    \E t \in Threads :
        LET seq == TokenSequence(t)
        IN /\ Completed(t)
           /\ \E k \in 1..Len(seq) :
                  /\ seq[k] = Call("toc", "permalink", Constant("True"))
                  /\ \E j \in (k + 1)..Len(seq) : IsRemoveExtra(seq[j])
           /\ extensions[t] = {"markdown.extensions.toc"}

\* C5 as stated: right after a mathjax token is processed, whatever came
\* before it, 'mdx_math' is in the accumulating name set and its
\* configuration is the fixed one.
C5_MathjaxMarksMathActive ==
    \A t \in Threads :
        (/\ pc[t] = "loop"
         /\ idx[t] > 1
         /\ IsMathjax(todo[t][idx[t] - 1]))
            => /\ "mdx_math" \in extension_names[t]
               /\ "mdx_math" \in DOMAIN extension_configs[t]
               /\ extension_configs[t]["mdx_math"] =
                      [enable_dollar_delimiter |-> "True"]

\* The configuration a token carries.
ConfigOf(token) ==
    IF IsMathjax(token)
    THEN [enable_dollar_delimiter |-> "True"]
    ELSE _split_extension_config(token)[2]

\* The last position of seq whose token configures c (0 when none does).
LastConfiguring(seq, c) ==
    IF \E k \in 1..Len(seq) : Configures(seq[k], c)
    THEN CHOOSE k \in 1..Len(seq) :
             /\ Configures(seq[k], c)
             /\ \A j \in (k + 1)..Len(seq) : ~Configures(seq[j], c)
    ELSE 0

\* C6: the tokens are taken in the order explicit, global, document and the
\* last one wins: the final configuration of every name in the final set
\* that some token configures (under any of its raw names, or as mathjax
\* for 'mdx_math') is the configuration of the last such token.
C6_LastTokenWins ==
    \A t \in Threads :
        LET seq == TokenSequence(t)
        IN Completed(t) =>
               \A c \in extensions[t] :
                   LastConfiguring(seq, c) # 0 =>
                       /\ c \in DOMAIN self_extension_configs[t]
                       /\ self_extension_configs[t][c] =
                              ConfigOf(seq[LastConfiguring(seq, c)])

C6_Witness ==
    \E t \in Threads :
        /\ Completed(t)
        /\ requested_extensions[t] = <<Call("toc", "permalink", Constant("True")),
                                       Bare("markdown.extensions.toc")>>
        /\ "markdown.extensions.toc" \in extensions[t]
        /\ self_extension_configs[t]["markdown.extensions.toc"] = EmptyDict

\* Token k of seq is an ordinary token no prefix resolves.
IsUnknown(token) ==
    /\ IsOrdinary(token)
    /\ \A p \in 1..Len(prefixes) :
           ModuleStatus(prefixes[p] \o token.name) # "Extension"

IsKnown(token) == ~IsUnknown(token)

WithoutUnknown(seq) == SelectSeq(seq, IsKnown)

UnknownCount(seq) == Cardinality({k \in 1..Len(seq) : IsUnknown(seq[k])})

\* The name set and configurations the first k tokens of seq stand for.
RECURSIVE ResultFor(_, _)
ResultFor(seq, k) ==
    IF k = 0
    THEN [names |-> {"markdown.extensions.extra", "mdx_math"},
          configs |-> EmptyDict]
    ELSE LET before == ResultFor(seq, k - 1)
             token == seq[k]
         IN IF IsMathjax(token)
            THEN [before EXCEPT
                     !.configs = Put(@, "mdx_math",
                                     [enable_dollar_delimiter |-> "True"])]
            ELSE IF IsRemoveExtra(token)
            THEN [before EXCEPT
                     !.names = @ \ {"markdown.extensions.extra", "mdx_math"}]
            ELSE IF IsUnknown(token)
            THEN before
            ELSE [names |-> before.names \cup {CanonicalOf(token)},
                  configs |-> Put(before.configs, CanonicalOf(token),
                                  ConfigOf(token))]

Result(seq) == ResultFor(seq, Len(seq))

\* C7: an unknown extension is warned about and skipped.  After any number
\* of tokens the accumulators are those of the same tokens with the unknown
\* ones deleted, one warning has been given per unknown token, and the loop
\* goes on to the end: the final result is that of the sequence with the
\* unknown tokens deleted.
C7_UnknownSkipped ==
    \A t \in Threads :
        /\ pc[t] = "loop" =>
               LET done == SubSeq(todo[t], 1, idx[t] - 1)
               IN /\ extension_names[t] = Result(WithoutUnknown(done)).names
                  /\ extension_configs[t] = Result(WithoutUnknown(done)).configs
                  /\ warnings[t] = UnknownCount(done)
        /\ Completed(t) =>
               /\ extensions[t] = Result(WithoutUnknown(TokenSequence(t))).names
               /\ self_extension_configs[t] =
                      Result(WithoutUnknown(TokenSequence(t))).configs
               /\ warnings[t] = UnknownCount(TokenSequence(t))

C7_Witness ==
    \E t \in Threads :
        /\ Completed(t)
        /\ requested_extensions[t] =
               <<Bare("nonexistent123"), Call("toc", "permalink", Constant("True"))>>
        /\ warnings[t] = 1
        /\ extensions[t] = Baseline \cup {"markdown.extensions.toc"}

\* The instance was given exactly one nonexistent extension, in its
\* explicit list, and has converted a document that names none.
OneNonexistentRequested(t) ==
    /\ Completed(t)
    /\ caller[t] = "convert"
    /\ UnknownCount(requested_extensions[t]) = 1
    /\ UnknownCount(global_extensions[t]) = 0
    /\ UnknownCount(document_extensions[t]) = 0

C9_MemoizedAlike ==
    /\ event.again =>
           /\ event.result = resolved[event.name]
           /\ event.loads = <<>>
    /\ \A n \in DOMAIN resolved :
           resolved[n] = None =>
               /\ n \in DOMAIN _canonicalized_ext_names
               /\ _canonicalized_ext_names[n] = None

\* The first prefix of order under which the module of raw name n is an
\* extension module gives the result r; r is None when there is none.
FirstQualifying(order, n, r) ==
    \/ /\ r = None
       /\ \A p \in 1..Len(order) : ModuleStatus(order[p] \o n) # "Extension"
    \/ \E p \in 1..Len(order) :
           /\ r = order[p] \o n
           /\ ModuleStatus(order[p] \o n) = "Extension"
           /\ \A q \in 1..(p - 1) : ModuleStatus(order[q] \o n) # "Extension"

\* C10 as stated: the prefixes are tried in the order empty,
\* 'markdown.extensions.', 'mdx_'.
C10_Original ==
    event.name # "" =>
        FirstQualifying(<<"", "markdown.extensions.", "mdx_">>,
                        event.name, event.result)

\* C10 (amended): the prefixes are tried in the order
\* 'markdown.extensions.', empty, 'mdx_'; the result is prefix+rawName for
\* the first of them whose module loads and has the factory, a module
\* without the factory being passed over, and None if there is none; no
\* module is imported after the one that qualifies.
C10_EngineFirst ==
    event.name # "" =>
        /\ FirstQualifying(<<"markdown.extensions.", "", "mdx_">>,
                           event.name, event.result)
        /\ LET order == <<"markdown.extensions.", "", "mdx_">>
               tried == event.loads
           IN /\ Len(tried) <= Len(order)
              /\ \A k \in 1..Len(tried) : tried[k] = order[k] \o event.name
              /\ event.result # None => tried[Len(tried)] = event.result
              /\ event.result = None => Len(tried) = Len(order)

C10_Witness ==
    /\ event.name = "toc"
    /\ ModuleStatus("markdown.extensions.toc") = "Extension"
    /\ ModuleStatus("toc") = "Extension"
    /\ event.result = "markdown.extensions.toc"

\* C11 as stated: the cache has per-key atomic compute-if-absent semantics
\* under concurrent callers.  No two threads are between the cache read and
\* the cache write for the same raw name at once, and once a raw name has
\* resolved to a canonical name every other resolution of it gets the same
\* name and imports nothing.
C11_AtomicComputeIfAbsent ==
    /\ \A t \in Threads : \A u \in Threads \ {t} :
           (pc[t] = "canon" /\ pc[u] = "canon") => name[t] # name[u]
    /\ (event.again /\ resolved[event.name] # None) =>
           /\ event.result = resolved[event.name]
           /\ event.loads = <<>>

\* The tokens the directive on the first line of a text declares.
FirstLineTokens(text_arg) ==
    IF text_arg = <<>>
    THEN <<>>
    ELSE IF Lower(text_arg[1].head) \in
                {"required-extensions: ", "required extensions: ",
                 "<!-- required extensions: "}
         THEN text_arg[1].tokens
         ELSE <<>>

\* C12: document-declared extensions are scanned anew on every convert and
\* never carry over.  When convert(text) has returned, the instance's name
\* set and configurations are those of its explicit tokens, its global
\* tokens and the tokens the first line of this text declares, whatever was
\* converted before; for a text that declares none they are those of a
\* fresh instance with the same explicit and global tokens.
C12_DocumentTokensOfThisTextOnly ==
    \A t \in Threads :
        (Completed(t) /\ caller[t] = "convert") =>
            LET own == requested_extensions[t] \o global_extensions[t]
                all == own \o FirstLineTokens(text[t])
            IN /\ extensions[t] = Result(WithoutUnknown(all)).names
               /\ self_extension_configs[t] = Result(WithoutUnknown(all)).configs
               /\ FirstLineTokens(text[t]) = <<>> =>
                      /\ extensions[t] = Result(WithoutUnknown(own)).names
                      /\ self_extension_configs[t] =
                             Result(WithoutUnknown(own)).configs

\* A text without a directive has been converted by an instance that
\* converted a text declaring remove_extra and markdown.extensions.extra
\* before (the cache holds a name its own tokens do not bring in): the
\* baseline is back.
C12_Witness ==
    \E t \in Threads :
        /\ Completed(t) /\ caller[t] = "convert"
        /\ text[t] = <<Plain>>
        /\ requested_extensions[t] = <<>> /\ global_extensions[t] = <<>>
        /\ "markdown.extensions.extra" \in DOMAIN _canonicalized_ext_names
        /\ extensions[t] = {"markdown.extensions.extra", "mdx_math"}
        /\ self_extension_configs[t] = EmptyDict

\* An argument value of the token, positional or keyword, is not a literal.
HasNonLiteralArgument(token) ==
    \/ \E k \in 1..Len(token.args) : token.args[k].kind # "Constant"
    \/ \E k \in 1..Len(token.keywords) : token.keywords[k].value.kind # "Constant"

\* The configuration is exactly the keyword -> literal mapping of the token.
IsWrittenMapping(token, c) ==
    /\ DOMAIN c = {token.keywords[k].arg : k \in 1..Len(token.keywords)}
    /\ \A k \in 1..Len(token.keywords) :
           c[token.keywords[k].arg] = token.keywords[k].value.value

\* C13 as stated: the parser rejects every token one of whose argument
\* values is not a literal, and produces no (name, config) pair for it; a
\* pair it does produce has the token's name, and as configuration the
\* empty mapping for a bare name and exactly the written keyword -> literal
\* mapping for a call.
C13_NonLiteralArgumentRejected ==
    \A t \in Threads :
        pc[t] = "canon" =>
            /\ ~HasNonLiteralArgument(Token(t))
            /\ name[t] = Token(t).name
            /\ IsWrittenMapping(Token(t), config[t])
            /\ ~Token(t).call => config[t] = EmptyDict

\* The tokens a configuration file contributes: none when it is missing,
\* else those of its lines that are not comments, in order.
RECURSIVE FileTokens(_, _)
FileTokens(file, k) ==
    IF ~file.exists \/ k = 0
    THEN <<>>
    ELSE IF file.lines[k].comment
         THEN FileTokens(file, k - 1)
         ELSE Append(FileTokens(file, k - 1), file.lines[k].token)

\* C14: the global configuration is consulted only when the constructor gets
\* no explicit extension sequence.  Then the global tokens are those of the
\* user file followed by those of the file beside the source, a missing
\* file contributing nothing and comment lines being ignored.  With an
\* explicit sequence, the empty one included, the global list is empty and
\* the instance resolves to what its explicit tokens alone stand for,
\* whatever the files hold.
C14_GlobalOnlyWhenNoExplicit ==
    \A t \in Threads :
        pc[t] # "none" =>
            LET made == construction[t]
            IN /\ requested_extensions[t] = made.arg.list
               /\ ~made.arg.given =>
                      global_extensions[t] =
                          FileTokens(made.userFile, Len(made.userFile.lines))
                              \o FileTokens(made.localFile, Len(made.localFile.lines))
               /\ made.arg.given =>
                      /\ global_extensions[t] = <<>>
                      /\ (Completed(t) /\ caller[t] = "init") =>
                             /\ extensions[t] =
                                    Result(WithoutUnknown(made.arg.list)).names
                             /\ self_extension_configs[t] =
                                    Result(WithoutUnknown(made.arg.list)).configs

\* An instance built with the empty explicit sequence while both files
\* hold tokens: neither remove_extra nor toc has had any effect.
C14_Witness ==
    \E t \in Threads :
        /\ Completed(t) /\ caller[t] = "init"
        /\ construction[t].arg = Explicit(<<>>)
        /\ construction[t].userFile = File(<<Line(Bare("remove_extra"))>>)
        /\ construction[t].localFile =
               File(<<Line(Call("toc", "permalink", Constant("True")))>>)
        /\ global_extensions[t] = <<>>
        /\ extensions[t] = {"markdown.extensions.extra", "mdx_math"}

\* C15: the baseline is active unless it is taken away.  The accumulator a
\* resolver run starts from is the set of the two names remove_extra
\* removes (a leading remove_extra leaves it empty), and for every token
\* sequence without remove_extra the final set holds both names, so that
\* display math is rendered without any opt-in.
C15_BaselineUnlessRemoved ==
    \A t \in Threads :
        /\ (pc[t] = "loop" /\ idx[t] = 1) =>
               extension_names[t] = {"markdown.extensions.extra", "mdx_math"}
        /\ (pc[t] = "loop" /\ idx[t] = 2 /\ IsRemoveExtra(todo[t][1])) =>
               extension_names[t] = {}
        /\ (Completed(t) /\ ~HasRemoveExtra(TokenSequence(t))) =>
               /\ {"markdown.extensions.extra", "mdx_math"} \subseteq extensions[t]
               /\ (caller[t] = "convert" /\ text[t] = <<Display>>) =>
                      converted[t].body =
                          <<"<script type=\"math/tex; mode=display\">x</script>">>

\* Display math converted by an instance that asked for the toc extension
\* only.
C15_Witness ==
    \E t \in Threads :
        /\ Completed(t) /\ caller[t] = "convert"
        /\ requested_extensions[t] = <<Bare("markdown.extensions.toc")>>
        /\ text[t] = <<Display>>
        /\ extensions[t] = {"markdown.extensions.extra", "mdx_math",
                            "markdown.extensions.toc"}
        /\ converted[t].body # <<"$$x$$">>

\* convert("$$x$$") has returned on an instance built with the explicit
\* extension sequence seq and no global tokens.
ConvertedDisplay(t, seq) ==
    /\ Completed(t) /\ caller[t] = "convert"
    /\ construction[t].arg = Explicit(seq)
    /\ requested_extensions[t] = seq /\ global_extensions[t] = <<>>
    /\ text[t] = <<Display>>

\* C16 as stated: with no extensions requested "$$x$$" is left as it is,
\* without a math script in the body and with an empty bootstrap string;
\* with mathjax requested the body holds the math-display script and the
\* bootstrap string is not empty.
C16_Original ==
    \A t \in Threads :
        /\ ConvertedDisplay(t, <<>>) =>
               /\ converted[t].body = <<"$$x$$">>
               /\ ~HasMathScript(converted[t].body)
               /\ get_javascript(converted[t].body) = ""
        /\ ConvertedDisplay(t, <<Bare("mathjax")>>) =>
               /\ HasMathScript(converted[t].body)
               /\ get_javascript(converted[t].body) # ""

\* C16: with no extensions requested "$$x$$" is rendered as display math
\* already, mdx_math being in the baseline: the body holds the math-display
\* script and the bootstrap string is not empty, as with mathjax requested.
\* The text is left as it is, with an empty bootstrap string, when
\* remove_extra is requested.
C16_DisplayMathByDefault ==
    \A t \in Threads :
        /\ (ConvertedDisplay(t, <<>>) \/ ConvertedDisplay(t, <<Bare("mathjax")>>)) =>
               /\ converted[t].body =
                      <<"<script type=\"math/tex; mode=display\">x</script>">>
               /\ get_javascript(converted[t].body) # ""
        /\ ConvertedDisplay(t, <<Bare("remove_extra")>>) =>
               /\ converted[t].body = <<"$$x$$">>
               /\ get_javascript(converted[t].body) = ""

\* "$$x$$" converted with no extensions requested.
C16_Witness ==
    \E t \in Threads :
        /\ ConvertedDisplay(t, <<>>)
        /\ extensions[t] = {"markdown.extensions.extra", "mdx_math"}
        /\ converted[t].returned
        /\ converted[t].body[1] # "$$x$$"

\* The line carries the Required-Extensions directive, in any case.
IsDirectiveLine(line) ==
    line.head \in {"Required-Extensions: ", "required extensions: ",
                   "<!-- REQUIRED EXTENSIONS: "}

\* C17: the scanner reads the first line of the text only.  What it returns
\* is the token list of the first line when that line carries the
\* directive, whatever its case, and the empty sequence when the text is
\* empty or its first line carries none; a directive on a later line
\* contributes nothing.
C17_FirstLineOnly ==
    \A t \in Threads :
        (caller[t] = "convert" /\ pc[t] # "none") =>
            /\ text[t] = <<>> => document_extensions[t] = <<>>
            /\ (text[t] # <<>> /\ ~IsDirectiveLine(text[t][1])) =>
                   document_extensions[t] = <<>>
            /\ (text[t] # <<>> /\ IsDirectiveLine(text[t][1])) =>
                   document_extensions[t] = text[t][1].tokens

\* A text whose second line, not its first, carries the directive.
C17_Witness ==
    \E t \in Threads :
        /\ caller[t] = "convert" /\ pc[t] = "loop"
        /\ Len(text[t]) = 2
        /\ text[t][1] = [head |-> "text", tokens |-> <<>>]
        /\ text[t][2] = [head |-> "<!-- REQUIRED EXTENSIONS: ",
                         tokens |-> <<Bare("remove_extra")>>]
        /\ document_extensions[t] = <<>>
        /\ todo[t] = <<>>

\* The css_class of the extension's final configuration, or the fallback.
ClassOf(t, extension, fallback) ==
    IF extension \in DOMAIN self_extension_configs[t]
       /\ "css_class" \in DOMAIN self_extension_configs[t][extension]
    THEN self_extension_configs[t][extension]["css_class"]
    ELSE fallback

\* C18: the stylesheet of a conversion is not empty only if
\* markdown.extensions.codehilite or pymdownx.highlight is in the name set
\* that conversion resolved.  It is the stylesheet for the css_class of the
\* active extension's final configuration, or for 'codehilite',
\* respectively 'highlight', when that gives none; codehilite goes first
\* when both are active.
C18_StylesheetFollowsHighlighter ==
    \A t \in Threads :
        (Completed(t) /\ caller[t] = "convert") =>
            LET codehilite == "markdown.extensions.codehilite" \in extensions[t]
                highlight == "pymdownx.highlight" \in extensions[t]
            IN /\ converted[t].returned
               /\ converted[t].stylesheet # "" => (codehilite \/ highlight)
               /\ codehilite =>
                      converted[t].stylesheet =
                          "pygments ." \o ClassOf(t, "markdown.extensions.codehilite",
                                                  "codehilite")
               /\ (~codehilite /\ highlight) =>
                      converted[t].stylesheet =
                          "pygments ." \o ClassOf(t, "pymdownx.highlight", "highlight")
               /\ (~codehilite /\ ~highlight) => converted[t].stylesheet = ""

\* Both highlighters are active, each with a class of its own.
C18_Witness ==
    \E t \in Threads :
        /\ Completed(t) /\ caller[t] = "convert"
        /\ {"markdown.extensions.codehilite", "pymdownx.highlight"}
               \subseteq extensions[t]
        /\ ClassOf(t, "markdown.extensions.codehilite", "codehilite") = "hl"
        /\ ClassOf(t, "pymdownx.highlight", "highlight") = "code"
        /\ converted[t].stylesheet = "pygments .hl"

\* A step keeps every cache entry as it is.
CacheKept ==
    \A n \in DOMAIN _canonicalized_ext_names :
        /\ n \in DOMAIN _canonicalized_ext_names'
        /\ _canonicalized_ext_names'[n] = _canonicalized_ext_names[n]

\* A step that writes the cache (it canonicalized a name and got one)
\* writes a key that was absent.
CacheWrittenWhenAbsent ==
    (event'.loads # <<>> /\ event'.result # None) =>
        /\ event'.name \notin DOMAIN _canonicalized_ext_names
        /\ event'.name \in DOMAIN _canonicalized_ext_names'

\* After a step every entry maps a raw name to one of the three prefixes
\* followed by that name, the one a fresh canonicalization gives.
CacheEntriesCanonical ==
    \A n \in DOMAIN _canonicalized_ext_names' :
        /\ _canonicalized_ext_names'[n] \in
               {"markdown.extensions." \o n, n, "mdx_" \o n}
        /\ _canonicalized_ext_names'[n] = _canonicalize_extension_name(n)

\* C19: the cache is filled lazily and never invalidated.  No step removes
\* or changes an entry, an entry is written only when its key was absent,
\* and every entry maps the raw name to prefix + raw name for one of the
\* three prefixes, as a fresh canonicalization in this process would.
C19_CacheNeverInvalidated ==
    [][CacheKept /\ CacheWrittenWhenAbsent /\ CacheEntriesCanonical]_vars

\* Two names are cached and a later token has just been served from the
\* cache.
C19_Witness ==
    /\ {"toc", "markdown.extensions.toc"} \subseteq DOMAIN _canonicalized_ext_names
    /\ _canonicalized_ext_names["toc"] = "markdown.extensions.toc"
    /\ event.name = "toc" /\ event.again /\ event.loads = <<>>

====
